---- MODULE Spec2Model ----
(***************************************************************************)
(* Overlap resolution in plain-calendar: the column layout engine          *)
(* (packages/react/src/hooks/useEventLayout.ts) and the priority stack     *)
(* engine (packages/core/src/stackUtils.ts).                               *)
(*                                                                         *)
(* A Date is modelled by its getTime() value, an integer instant.  An      *)
(* event is a record [id, start, end, priority, allDay]; priority is the   *)
(* value the caller's getPriority accessor returns for the event.  Arrays  *)
(* are sequences; array index k of the source is position k + 1 here,      *)
(* column numbers and layers keep the source's 0-based values.             *)
(* Array.prototype.sort is stable, and so is StableSort.                   *)
(* The percentage geometry (top, height) of the output records is computed *)
(* from the event's own times only and is not part of the model.           *)
(*                                                                         *)
(* Also modelled: the earlier stacking API (groupOverlappingEvents,        *)
(* calculateStackLayers), useEventsMap, useDateCache and the navigation of *)
(* useCalendarState.  For these a Date is day * SlotsPerDay + time of day. *)
(***************************************************************************)
EXTENDS Integers, Sequences, FiniteSets, TLC

\* ---------------------------------------------------------------- bounds
\* Instants are 0..MaxTime in the lists handed to the column engine.
MaxTime == 3
\* Instants are 0..MaxStackTime in the lists handed to the stack engine.
MaxStackTime == 2
\* Longest event list handed to the column engine.
MaxEvents == 4
\* Longest event list handed to the stack engine.
MaxStackEvents == 3
\* Longest event list handed to the stack engine over the instants 0..MaxTime.
MaxWideEvents == 2
\* Longest event list with all-day events handed to the column engine.
MaxMixedEvents == 3
\* Instants are 0..MaxMixedTime in the lists with all-day events.
MaxMixedTime == 2
\* Longest event list in the closer look at the column placement.
MaxColumnEvents == 4
\* Instants are 0..MaxColumnTime in the closer look at the column placement.
MaxColumnTime == 2
\* Priorities returned by getPriority are 1..MaxPriority.
MaxPriority == 2
\* Values of the maxDepth option are 1..MaxDepthOption.
MaxDepthOption == 2
\* Values of the maxStack option are 1..MaxStackOption.
MaxStackOption == 2
\* Instants per calendar day: the times of day are 0..SlotsPerDay - 1.
SlotsPerDay == 2
\* Calendar days are 0..MaxDay in the lists handed to useEventsMap.
MaxDay == 1
\* Longest event list handed to useEventsMap.
MaxMapEvents == 2
\* A date cache is created with maxSize in 1..MaxCacheSize.
MaxCacheSize == 2
\* The dates looked up in a date cache fall on the calendar days 0..MaxCacheDay.
MaxCacheDay == 2
\* A date cache is followed for up to MaxAccesses accesses.
MaxAccesses == 4
\* The calendar is navigated inside the months 0..MaxMonth of one year.
MaxMonth == 2

\* ------------------------------------------------------------- constants
\* parentId of a root (null in the source); event ids are 1, 2, ...
NoParent == 0
\* Default of the insetPx option.
DefaultInsetPx == 8
\* Default of the offsetPx option of the earlier stacking API.
DefaultOffsetPx == 8
\* Default of the maxSize parameter of useDateCache.
DefaultMaxSize == 100
\* A key that does not parse to a date (fromDateString returns null for it);
\* the keys that parse are the calendar days 0, 1, ...
InvalidKey == -1
\* null as the result of fromDateString.
NoDate == -1
\* Days per month, January first, of a year that is not a leap year.
DaysInMonth == <<31, 28, 31, 30, 31, 30, 31, 31, 30, 31, 30, 31>>
\* Days moved by goToNext and goToPrevious in the week view.
DaysPerWeek == 7
\* Default of the daysToShow option.
DefaultDaysToShow == 7

VARIABLES
    events,        \* the caller's event list
    returned,      \* the functions that have returned for events
    layout,        \* what useEventLayout(events) returned
    groups,        \* what findOverlapGroups(events) returned
    stackRuns,     \* maxDepth -> what calculateStacks(events, {maxDepth}) returned
    containmentMap, \* what calculateContainment(events, getPriority) returned
    layerRuns,     \* maxStack -> what calculateStackLayers(events, {maxStack}) returned
    eventsMap,     \* what useEventsMap(events) returned
    overlapGroups, \* what groupOverlappingEvents(events) returned
    maxSize,       \* the maxSize the date cache was created with
    cache,         \* cacheRef.current: key -> cached Date
    accessOrder,   \* accessOrderRef.current
    accessLog,     \* history: the keys accessed so far, oldest first
    lastCall,      \* the latest call on the date cache and whether it threw
    view,          \* the view option of useCalendarState
    selectedDate,  \* the selectedDate state of useCalendarState
    currentViewingDate, \* the currentViewingDate state of useCalendarState
    trail          \* history: the latest two navigation actions and the state before each

\* The variables of the layout engines and of useEventsMap.
engineVars == <<events, returned, layout, groups, stackRuns, containmentMap,
               layerRuns, eventsMap, overlapGroups>>

\* The variables of useDateCache.
cacheVars == <<maxSize, cache, accessOrder, accessLog, lastCall>>

\* The variables of useCalendarState.
calVars == <<view, selectedDate, currentViewingDate, trail>>

vars == <<events, returned, layout, groups, stackRuns, containmentMap, layerRuns,
         eventsMap, overlapGroups, cacheVars, calVars>>

\* ------------------------------------------------------------ primitives
Range(s) == {s[i] : i \in 1..Len(s)}

SetMax(S) == CHOOSE m \in S : \A x \in S : x <= m

Min2(a, b) == IF a <= b THEN a ELSE b

\* [...s].sort(comparator) for a comparator that is a total preorder;
\* cmp[i, j] is the comparator's value for (s[i], s[j]).  The element at
\* input position i lands behind every element that compares lower and
\* behind the equal ones that came before it.
StableSort(s, cmp) ==
    LET n == Len(s)
        rank == [i \in 1..n |-> 1 + Cardinality({j \in 1..n :
                    \/ cmp[j, i] < 0
                    \/ (cmp[j, i] = 0 /\ j < i)})]
    IN  [k \in 1..n |-> s[CHOOSE i \in 1..n : rank[i] = k]]

eventsOverlap(a, b) == a.start < b.end /\ a.end > b.start

\* Variant: only the start of the contained event is tested.
eventContains_StartOnly(container, contained) ==
    contained.start >= container.start

\* Variant: the parent test of the earlier stacking API, overlap instead of
\* containment.
eventContains_Overlap(container, contained) ==
    contained.start < container.end /\ contained.end > container.start

eventContains(container, contained) ==
    contained.start >= container.start /\ contained.end <= container.end

\* ------------------------------------------------------ findOverlapGroups
byStart(a, b) == a.start - b.start

sortByStart(evs) ==
    StableSort(evs, [i, j \in 1..Len(evs) |-> byStart(evs[i], evs[j])])

\* Variant: the reported range ends with the last event of the group.
StackGroup_LastEventEnd(currentGroup, groupEnd) ==
    [events |-> currentGroup,
     timeRange |-> [start |-> currentGroup[1].start,
                    end |-> currentGroup[Len(currentGroup)].end]]

StackGroup(currentGroup, groupEnd) ==
    [events |-> currentGroup,
     timeRange |-> [start |-> currentGroup[1].start, end |-> groupEnd]]

\* Variant: an event that starts exactly at the watermark joins the group.
joinsCurrentGroup_Touching(event, groupEnd) == event.start <= groupEnd

\* "If this event starts before the current group ends, it overlaps".
joinsCurrentGroup(event, groupEnd) == event.start < groupEnd

\* Variant: the watermark follows the last event and may shrink.
extendGroupEnd_Overwrite(event, groupEnd) == event.end

\* "Extend group end if this event ends later".
extendGroupEnd(event, groupEnd) ==
    IF event.end > groupEnd THEN event.end ELSE groupEnd

RECURSIVE findOverlapGroupsLoop(_, _, _, _, _)
findOverlapGroupsLoop(sorted, i, done, currentGroup, groupEnd) ==
    IF i > Len(sorted)
    THEN Append(done, StackGroup(currentGroup, groupEnd))
    ELSE LET event == sorted[i] IN
         IF joinsCurrentGroup(event, groupEnd)
         THEN findOverlapGroupsLoop(sorted, i + 1, done,
                  Append(currentGroup, event),
                  extendGroupEnd(event, groupEnd))
         ELSE findOverlapGroupsLoop(sorted, i + 1,
                  Append(done, StackGroup(currentGroup, groupEnd)),
                  <<event>>, event.end)

\* Variant: the sweep starts at index 0 and visits sorted[0] a second time.
findOverlapGroups_FromZero(evs) ==
    IF Len(evs) = 0 THEN <<>>
    ELSE LET sorted == sortByStart(evs)
         IN  findOverlapGroupsLoop(sorted, 1, <<>>, <<sorted[1]>>, sorted[1].end)

findOverlapGroups(evs) ==
    IF Len(evs) = 0 THEN <<>>
    ELSE LET sorted == sortByStart(evs)
         IN  findOverlapGroupsLoop(sorted, 2, <<>>, <<sorted[1]>>, sorted[1].end)

\* ---------------------------------------------------------- assignColumns
\* Variant: shorter events go first among events with the same start.
byStartThenLonger_ShorterFirst(a, b) ==
    IF a.start - b.start # 0 THEN a.start - b.start
    ELSE (a.end - a.start) - (b.end - b.start)

byStartThenLonger(a, b) ==
    IF a.start - b.start # 0 THEN a.start - b.start
    ELSE (b.end - b.start) - (a.end - a.start)

sortByStartThenLonger(evs) ==
    StableSort(evs, [i, j \in 1..Len(evs) |-> byStartThenLonger(evs[i], evs[j])])

\* Variant: the last free column is taken instead of the first.
firstAvailableColumn_Last(columnEndTimes, start) ==
    LET free == {col \in 0..(Len(columnEndTimes) - 1) :
                    columnEndTimes[col + 1] <= start}
    IN  IF free = {} THEN -1
        ELSE CHOOSE col \in free : \A other \in free : col >= other

\* Variant: no column is ever found free.
firstAvailableColumn_NoReuse(columnEndTimes, start) == -1

\* Variant: a column whose last event ends exactly at start is not reused.
firstAvailableColumn_Strict(columnEndTimes, start) ==
    LET free == {col \in 0..(Len(columnEndTimes) - 1) :
                    columnEndTimes[col + 1] < start}
    IN  IF free = {} THEN -1
        ELSE CHOOSE col \in free : \A other \in free : col <= other

\* Variant: the comparison is reversed, a column still in use is taken.
firstAvailableColumn_Reversed(columnEndTimes, start) ==
    LET free == {col \in 0..(Len(columnEndTimes) - 1) :
                    columnEndTimes[col + 1] >= start}
    IN  IF free = {} THEN -1
        ELSE CHOOSE col \in free : \A other \in free : col <= other

\* The first column (0-based) whose last event has ended by start, or -1.
firstAvailableColumn(columnEndTimes, start) ==
    LET free == {col \in 0..(Len(columnEndTimes) - 1) :
                    columnEndTimes[col + 1] <= start}
    IN  IF free = {} THEN -1
        ELSE CHOOSE col \in free : \A other \in free : col <= other

\* The placement loop: columnAssignments maps the ids placed so far to
\* their column.
RECURSIVE placeEvents(_, _, _, _)
placeEvents(sorted, i, columnEndTimes, columnAssignments) ==
    IF i > Len(sorted) THEN columnAssignments
    ELSE LET event == sorted[i]
             found == firstAvailableColumn(columnEndTimes, event.start)
             assignedColumn == IF found = -1 THEN Len(columnEndTimes) ELSE found
             endTimes == IF found = -1
                         THEN Append(columnEndTimes, event.end)
                         ELSE [columnEndTimes EXCEPT ![found + 1] = event.end]
         IN  placeEvents(sorted, i + 1, endTimes,
                 (event.id :> assignedColumn) @@ columnAssignments)

\* Variant: the largest column index is reported as the column count.
totalColumnsOf_MaxColumn(event, sorted, columnAssignments) ==
    LET overlapping == {other \in Range(sorted) : eventsOverlap(event, other)}
    IN  SetMax({columnAssignments[e.id] : e \in overlapping})

totalColumnsOf(event, sorted, columnAssignments) ==
    LET overlapping == {other \in Range(sorted) : eventsOverlap(event, other)}
    IN  SetMax({columnAssignments[e.id] : e \in overlapping}) + 1

\* Map of event id to {column, totalColumns}; the empty map for no events.
assignColumns(evs) ==
    IF Len(evs) = 0 THEN << >>
    ELSE LET sorted == sortByStartThenLonger(evs)
             columnAssignments == placeEvents(sorted, 1, <<>>, << >>)
         IN  [id \in {e.id : e \in Range(sorted)} |->
                 LET event == CHOOSE e \in Range(sorted) : e.id = id
                 IN  [column |-> columnAssignments[id],
                      totalColumns |-> totalColumnsOf(event, sorted, columnAssignments)]]

\* --------------------------------------------------------- useEventLayout
\* Variant: the output maps over all events; all-day events fall back to
\* the default column 0 of 1.
positionedEventsOf_MapAll(evs) ==
    LET timedEvents == SelectSeq(evs, LAMBDA e : ~e.allDay)
    IN  IF Len(timedEvents) = 0 THEN <<>>
        ELSE LET columnInfo == assignColumns(timedEvents)
             IN  [k \in 1..Len(evs) |->
                    LET event == evs[k]
                        info == IF event.id \in DOMAIN columnInfo
                                THEN columnInfo[event.id]
                                ELSE [column |-> 0, totalColumns |-> 1]
                    IN  [event |-> event,
                         column |-> info.column,
                         totalColumns |-> info.totalColumns]]

positionedEventsOf(evs) ==
    LET timedEvents == SelectSeq(evs, LAMBDA e : ~e.allDay)
    IN  IF Len(timedEvents) = 0 THEN <<>>
        ELSE LET columnInfo == assignColumns(timedEvents)
             IN  [k \in 1..Len(timedEvents) |->
                    LET event == timedEvents[k]
                        info == IF event.id \in DOMAIN columnInfo
                                THEN columnInfo[event.id]
                                ELSE [column |-> 0, totalColumns |-> 1]
                    IN  [event |-> event,
                         column |-> info.column,
                         totalColumns |-> info.totalColumns]]

\* Variant: hasOverlaps tests totalColumns >= 1.
useEventLayout_AtLeastOne(evs) ==
    LET positionedEvents == positionedEventsOf(evs)
    IN  [positionedEvents |-> positionedEvents,
         hasOverlaps |-> \E k \in 1..Len(positionedEvents) :
                             positionedEvents[k].totalColumns >= 1]

useEventLayout(evs) ==
    LET positionedEvents == positionedEventsOf(evs)
    IN  [positionedEvents |-> positionedEvents,
         hasOverlaps |-> \E k \in 1..Len(positionedEvents) :
                             positionedEvents[k].totalColumns > 1]

\* --------------------------------------------------- calculateContainment
byPriority(a, b) == a.priority - b.priority

sortByPriority(evs) ==
    StableSort(evs, [i, j \in 1..Len(evs) |-> byPriority(evs[i], evs[j])])

\* Variant: the scan runs forwards and stops at the first container.
closestContainer_First(sorted, i) ==
    LET containers == {j \in 1..(i - 1) : eventContains(sorted[j], sorted[i])}
    IN  IF containers = {} THEN 0
        ELSE CHOOSE j \in containers : \A other \in containers : j <= other

\* The inner loop j = i - 1 .. 0: the position of the nearest event before
\* sorted[i] that contains it, 0 when there is none.
closestContainer(sorted, i) ==
    LET containers == {j \in 1..(i - 1) : eventContains(sorted[j], sorted[i])}
    IN  IF containers = {} THEN 0 ELSE SetMax(containers)

\* Variant: every contained event is put on layer 1.
nestedUnder_LayerOne(eventInfo, potentialParent, parentInfo) ==
    [eventInfo EXCEPT !.parentId = potentialParent.id,
                      !.layer = 1]

\* Variant: the child takes its parent's layer, without the + 1.
nestedUnder_SameLayer(eventInfo, potentialParent, parentInfo) ==
    [eventInfo EXCEPT !.parentId = potentialParent.id,
                      !.layer = parentInfo.layer]

\* What finding a container writes into the event's own entry.
nestedUnder(eventInfo, potentialParent, parentInfo) ==
    [eventInfo EXCEPT !.parentId = potentialParent.id,
                      !.layer = parentInfo.layer + 1]

\* Variant: the child is not recorded in the parent's list.
withChild_Unrecorded(parentInfo, event) == parentInfo

\* What finding a container writes into the parent's entry.
withChild(parentInfo, event) ==
    [parentInfo EXCEPT !.childIds = Append(@, event.id)]

RECURSIVE containmentLoop(_, _, _)
containmentLoop(sorted, i, result) ==
    IF i > Len(sorted) THEN result
    ELSE LET event == sorted[i]
             j == closestContainer(sorted, i)
         IN  IF j = 0 THEN containmentLoop(sorted, i + 1, result)
             ELSE LET potentialParent == sorted[j]
                      parentInfo == result[potentialParent.id]
                      eventInfo == nestedUnder(result[event.id],
                                               potentialParent, parentInfo)
                  IN  containmentLoop(sorted, i + 1,
                          [result EXCEPT
                              ![event.id] = eventInfo,
                              ![potentialParent.id] = withChild(@, event)])

\* Map of event id to {parentId, childIds, layer}.
calculateContainment(evs) ==
    LET sorted == sortByPriority(evs)
        initial == [id \in {e.id : e \in Range(sorted)} |->
                       [parentId |-> NoParent, childIds |-> <<>>, layer |-> 0]]
    IN  containmentLoop(sorted, 2, initial)

\* -------------------------------------------------------- calculateStacks
getStackInsets(layer, insetPx) ==
    [left |-> layer * insetPx, right |-> layer * insetPx]

\* The layer reported for a logical layer under the maxDepth option.
reportedLayer(infoLayer, maxDepth) == Min2(infoLayer, maxDepth)

\* Variant: an event whose layer was clamped is reported without its parent.
stackedEventOf_Detached(event, info, layer) ==
    [event |-> event,
     layer |-> layer,
     parentId |-> IF layer < info.layer THEN NoParent ELSE info.parentId,
     childIds |-> info.childIds,
     insets |-> getStackInsets(layer, DefaultInsetPx)]

\* The record pushed for an event of a group of two or more events.
stackedEventOf(event, info, layer) ==
    [event |-> event,
     layer |-> layer,
     parentId |-> info.parentId,
     childIds |-> info.childIds,
     insets |-> getStackInsets(layer, DefaultInsetPx)]

\* The loop over the events of one group of two or more events; acc carries
\* allStackedEvents, globalMaxDepth and hasStacks.
RECURSIVE stackGroupEvents(_, _, _, _, _)
stackGroupEvents(groupEvents, k, containment, maxDepth, acc) ==
    IF k > Len(groupEvents) THEN acc
    ELSE LET event == groupEvents[k]
             info == containment[event.id]
             layer == reportedLayer(info.layer, maxDepth)
         IN  stackGroupEvents(groupEvents, k + 1, containment, maxDepth,
                 [stackedEvents |-> Append(acc.stackedEvents,
                                           stackedEventOf(event, info, layer)),
                  maxDepth |-> IF layer > acc.maxDepth THEN layer ELSE acc.maxDepth,
                  hasStacks |-> acc.hasStacks \/ layer > 0])

\* The loop over the groups.
RECURSIVE stackGroupsLoop(_, _, _, _)
stackGroupsLoop(stackGroups, g, maxDepth, acc) ==
    IF g > Len(stackGroups) THEN acc
    ELSE LET group == stackGroups[g] IN
         IF Len(group.events) = 1
         THEN stackGroupsLoop(stackGroups, g + 1, maxDepth,
                  [acc EXCEPT !.stackedEvents = Append(@,
                      [event |-> group.events[1],
                       layer |-> 0,
                       parentId |-> NoParent,
                       childIds |-> <<>>,
                       insets |-> [left |-> 0, right |-> 0]])])
         ELSE stackGroupsLoop(stackGroups, g + 1, maxDepth,
                  stackGroupEvents(group.events, 1,
                      calculateContainment(group.events), maxDepth, acc))

\* Variant: the summary returns the maxDepth option in place of
\* globalMaxDepth.
calculateStacks_OptionDepth(evs, maxDepth) ==
    IF Len(evs) = 0
    THEN [stackedEvents |-> <<>>, stackGroups |-> <<>>,
          maxDepth |-> 0, hasStacks |-> FALSE]
    ELSE LET stackGroups == findOverlapGroups(evs)
             acc == stackGroupsLoop(stackGroups, 1, maxDepth,
                        [stackedEvents |-> <<>>, maxDepth |-> 0, hasStacks |-> FALSE])
         IN  [stackedEvents |-> acc.stackedEvents,
              stackGroups |-> stackGroups,
              maxDepth |-> maxDepth,
              hasStacks |-> acc.hasStacks]

calculateStacks(evs, maxDepth) ==
    IF Len(evs) = 0
    THEN [stackedEvents |-> <<>>, stackGroups |-> <<>>,
          maxDepth |-> 0, hasStacks |-> FALSE]
    ELSE LET stackGroups == findOverlapGroups(evs)
             acc == stackGroupsLoop(stackGroups, 1, maxDepth,
                        [stackedEvents |-> <<>>, maxDepth |-> 0, hasStacks |-> FALSE])
         IN  [stackedEvents |-> acc.stackedEvents,
              stackGroups |-> stackGroups,
              maxDepth |-> acc.maxDepth,
              hasStacks |-> acc.hasStacks]

\* ------------------------------------------------- groupOverlappingEvents
\* The clustering of the earlier stacking API.
\* The for loop over sorted inside the while loop: the events not assigned
\* yet that overlap current, in sorted order.
joiningEvents(sorted, assigned, current) ==
    SelectSeq(sorted, LAMBDA other :
        other.id \notin assigned /\ eventsOverlap(current, other))

\* Variant: only the first event of the group draws other events in.
growsFrom_FirstOnly(group, i) == i = 1

\* The while loop visits every position of the growing group.
growsFrom(group, i) == i <= Len(group)

\* The while loop over the positions i of the growing group.
RECURSIVE growGroup(_, _, _, _)
growGroup(sorted, group, assigned, i) ==
    IF ~growsFrom(group, i) THEN [group |-> group, assigned |-> assigned]
    ELSE LET joining == joiningEvents(sorted, assigned, group[i])
         IN  growGroup(sorted, group \o joining,
                       assigned \cup {e.id : e \in Range(joining)}, i + 1)

\* The outer for loop over sorted.
RECURSIVE groupOverlappingLoop(_, _, _, _)
groupOverlappingLoop(sorted, k, overlapping, assigned) ==
    IF k > Len(sorted) THEN overlapping
    ELSE IF sorted[k].id \in assigned
    THEN groupOverlappingLoop(sorted, k + 1, overlapping, assigned)
    ELSE LET grown == growGroup(sorted, <<sorted[k]>>,
                                assigned \cup {sorted[k].id}, 1)
         IN  groupOverlappingLoop(sorted, k + 1,
                 Append(overlapping, grown.group), grown.assigned)

groupOverlappingEvents(evs) ==
    IF Len(evs) = 0 THEN <<>>
    ELSE groupOverlappingLoop(sortByStart(evs), 1, <<>>, {})

\* --------------------------------------------------- calculateStackLayers
\* The earlier stacking API.
byPriorityThenStart(a, b) ==
    LET prioDiff == a.priority - b.priority
    IN  IF prioDiff # 0 THEN prioDiff ELSE a.start - b.start

sortByPriorityThenStart(evs) ==
    StableSort(evs, [i, j \in 1..Len(evs) |->
                        byPriorityThenStart(evs[i], evs[j])])

\* Variant: the clamp is one layer too high.
stackLayerOf_ClampAtMaxStack(i, maxStack) == Min2(i, maxStack)

\* The layer of the event at index i (from 0) of the sorted list.
stackLayerOf(i, maxStack) == Min2(i, maxStack - 1)

\* The inner loop j = i - 1 .. 0: the position of the nearest event before
\* sorted[i] that overlaps it, 0 when there is none.
overlappingBefore(sorted, i) ==
    LET overlapping == {j \in 1..(i - 1) : eventsOverlap(sorted[i], sorted[j])}
    IN  IF overlapping = {} THEN 0 ELSE SetMax(overlapping)

\* parent and children hold the ids of the records they point at.
calculateStackLayers(evs, maxStack, offsetPx) ==
    IF Len(evs) = 0 THEN <<>>
    ELSE IF Len(evs) = 1
    THEN <<[event |-> evs[1], stackLayer |-> 0, stackOffset |-> 0,
            stackSize |-> 1, children |-> <<>>, parent |-> NoParent]>>
    ELSE LET sorted == sortByPriorityThenStart(evs)
             n == Len(sorted)
             parentAt == [i \in 1..n |-> overlappingBefore(sorted, i)]
             childrenAt(i) ==
                 SelectSeq([k \in 1..n |-> k], LAMBDA k : parentAt[k] = i)
         IN  [i \in 1..n |->
                LET layer == stackLayerOf(i - 1, maxStack)
                IN  [event |-> sorted[i],
                     stackLayer |-> layer,
                     stackOffset |-> layer * offsetPx,
                     stackSize |-> n,
                     children |-> [c \in 1..Len(childrenAt(i)) |->
                                      sorted[childrenAt(i)[c]].id],
                     parent |-> IF parentAt[i] = 0 THEN NoParent
                                ELSE sorted[parentAt[i]].id]]

\* ------------------------------------------------------------ useEventsMap
\* A Date is the instant day * SlotsPerDay + time of day; a calendar day is
\* a day number from 0.
getDate(date) == date \div SlotsPerDay

\* setDate(getDate() + days): the calendar day moves, the time of day stays.
addDays(date, days) == date + days * SlotsPerDay

isSameDay(date1, date2) == getDate(date1) = getDate(date2)

\* The map key of a date: its calendar day without its time of day.
toDateString(date) == getDate(date)

\* The keys the while loop files the event under, from current on.
RECURSIVE spannedKeys(_, _)
spannedKeys(current, endDate) ==
    IF current <= endDate
    THEN {toDateString(current)} \cup spannedKeys(addDays(current, 1), endDate)
    ELSE {}

\* The keys under which the for loop pushes the event.
keysOf(event) ==
    IF event.allDay \/ ~isSameDay(event.start, event.end)
    THEN spannedKeys(event.start, event.end)
    ELSE {toDateString(event.start)}

\* The map: key -> the events pushed under it in the order of evs, then
\* sorted by start time.
useEventsMap(evs) ==
    LET keys == UNION {keysOf(evs[k]) : k \in 1..Len(evs)}
    IN  [key \in keys |->
            sortByStart(SelectSeq(evs, LAMBDA e : key \in keysOf(e)))]

\* ------------------------------------------------------------ useDateCache
\* new Date(year, month - 1, day, 12, 0, 0): noon of the day the key names,
\* null for a key that does not parse.
fromDateString(dateStr) ==
    IF dateStr = InvalidKey THEN NoDate
    ELSE dateStr * SlotsPerDay + SlotsPerDay \div 2

\* setHours(12, 0, 0, 0).
setHoursNoon(date) == getDate(date) * SlotsPerDay + SlotsPerDay \div 2

\* The state of the two refs.
CacheState(entries, order) == [cache |-> entries, accessOrder |-> order]

\* Map.delete(key).
mapDelete(entries, key) == [k \in DOMAIN entries \ {key} |-> entries[k]]

\* Map.set(key, value).
mapSet(entries, key, value) ==
    [k \in DOMAIN entries \cup {key} |-> IF k = key THEN value ELSE entries[k]]

\* The while loop of evictOldest.  Every key in accessOrder is a non-empty
\* string, so "if (oldest)" holds for each shifted key.
RECURSIVE evictOldest(_, _)
evictOldest(c, size) ==
    IF Cardinality(DOMAIN c.cache) >= size /\ Len(c.accessOrder) > 0
    THEN evictOldest(CacheState(mapDelete(c.cache, Head(c.accessOrder)),
                                Tail(c.accessOrder)), size)
    ELSE c

\* Variant: a key that is already in the list keeps its place.
updateAccessOrder_KeepPlace(order, key) ==
    IF key \in Range(order) THEN order ELSE Append(order, key)

updateAccessOrder(order, key) ==
    Append(SelectSeq(order, LAMBDA k : k # key), key)

\* Each method returns the state of the refs after the call and whether the
\* call threw.
cacheGet(c, key) ==
    IF key \in DOMAIN c.cache
    THEN [after |-> CacheState(c.cache, updateAccessOrder(c.accessOrder, key)),
          threw |-> FALSE]
    ELSE [after |-> c, threw |-> FALSE]

getOrCreate(c, key, size) ==
    IF key \in DOMAIN c.cache
    THEN [after |-> CacheState(c.cache, updateAccessOrder(c.accessOrder, key)),
          threw |-> FALSE]
    ELSE LET evicted == evictOldest(c, size)
             date == fromDateString(key)
         IN  IF date = NoDate
             THEN [after |-> evicted, threw |-> TRUE]
             ELSE [after |-> CacheState(mapSet(evicted.cache, key, date),
                                        updateAccessOrder(evicted.accessOrder, key)),
                   threw |-> FALSE]

getForDate(c, date, size) ==
    LET key == toDateString(date)
    IN  IF key \in DOMAIN c.cache
        THEN [after |-> CacheState(c.cache, updateAccessOrder(c.accessOrder, key)),
              threw |-> FALSE]
        ELSE LET evicted == evictOldest(c, size)
                 normalized == setHoursNoon(date)
             IN  [after |-> CacheState(mapSet(evicted.cache, key, normalized),
                                       updateAccessOrder(evicted.accessOrder, key)),
                  threw |-> FALSE]

cacheClear(c) == [after |-> CacheState(<< >>, <<>>), threw |-> FALSE]

cacheSize(c) == Cardinality(DOMAIN c.cache)

\* -------------------------------------------------------- useCalendarState
\* The number of the first day of month m (from 0) counted from January 1.
RECURSIVE firstDayOfMonth(_)
firstDayOfMonth(m) ==
    IF m = 0 THEN 0 ELSE firstDayOfMonth(m - 1) + DaysInMonth[m]

getMonth(date) ==
    CHOOSE m \in 0..(Len(DaysInMonth) - 1) :
        /\ firstDayOfMonth(m) <= getDate(date)
        /\ getDate(date) < firstDayOfMonth(m + 1)

\* Date.prototype.getDate(): the day of the month, from 1.
dayOfMonth(date) == getDate(date) - firstDayOfMonth(getMonth(date)) + 1

\* Variant: the day of the month is clamped to the length of the target
\* month.
addMonths_Clamped(date, months) ==
    LET m == getMonth(date) + months
    IN  (firstDayOfMonth(m) + Min2(dayOfMonth(date), DaysInMonth[m + 1]) - 1)
            * SlotsPerDay + (date % SlotsPerDay)

\* setMonth(getMonth() + months): the day of the month and the time of day
\* stay; a day of the month past the end of the target month runs on into
\* the month after it.
addMonths(date, months) ==
    LET m == getMonth(date) + months
    IN  (firstDayOfMonth(m) + dayOfMonth(date) - 1) * SlotsPerDay
            + (date % SlotsPerDay)

\* setHours(0, 0, 0, 0).
startOfDay(date) == getDate(date) * SlotsPerDay

\* The two states after setSelectedDate(date).
setSelectedDate(date) ==
    [selectedDate |-> startOfDay(date), currentViewingDate |-> startOfDay(date)]

\* The date goToPrevious hands to setSelectedDate.
previousDate(viewMode, viewing, daysToShow) ==
    CASE viewMode = "day" -> addDays(viewing, -1)
      [] viewMode = "week" -> addDays(viewing, -DaysPerWeek)
      [] viewMode = "month" -> addMonths(viewing, -1)
      [] OTHER -> addDays(viewing, -daysToShow)

\* The date goToNext hands to setSelectedDate.
nextDate(viewMode, viewing, daysToShow) ==
    CASE viewMode = "day" -> addDays(viewing, 1)
      [] viewMode = "week" -> addDays(viewing, DaysPerWeek)
      [] viewMode = "month" -> addMonths(viewing, 1)
      [] OTHER -> addDays(viewing, daysToShow)

\* ------------------------------------------------------------ the callers
\* An event list with unique ids, start < end, all events timed, of at most
\* maxLen events with instants up to maxTime and priorities from the given
\* set.
Intervals(maxTime) == {iv \in (0..maxTime) \X (0..maxTime) : iv[1] < iv[2]}

EventOf(id, interval, priority) ==
    [id |-> id, start |-> interval[1], end |-> interval[2],
     priority |-> priority, allDay |-> FALSE]

IsEventList(maxLen, maxTime, priorities) ==
    \E n \in 0..maxLen :
        \E f \in [1..n -> Intervals(maxTime) \X priorities] :
            events = [k \in 1..n |-> EventOf(k, f[k][1], f[k][2])]

\* The refs of a date cache right after useDateCache(size).
CacheCreated(size) ==
    /\ maxSize = size
    /\ cache = << >>
    /\ accessOrder = <<>>
    /\ accessLog = <<>>
    /\ lastCall = [op |-> "none", key |-> InvalidKey, threw |-> FALSE]

NoEngineCalled ==
    /\ returned = {}
    /\ layout = useEventLayout(<<>>)
    /\ groups = <<>>
    /\ stackRuns = << >>
    /\ containmentMap = << >>
    /\ layerRuns = << >>
    /\ eventsMap = << >>
    /\ overlapGroups = <<>>

\* The instants of the months 0..MaxMonth.
NavDates == 0..(firstDayOfMonth(MaxMonth + 1) * SlotsPerDay - 1)

CalendarViews == {"day", "week", "month", "agenda"}

\* The state right after useCalendarState({initialDate, view}).
CalendarCreated(viewMode, initialDate) ==
    /\ view = viewMode
    /\ selectedDate = startOfDay(initialDate)
    /\ currentViewingDate = startOfDay(initialDate)
    /\ trail = <<>>

NothingReturned ==
    /\ NoEngineCalled
    /\ CacheCreated(DefaultMaxSize)
    /\ CalendarCreated("week", 0)

\* The column engine is handed up to MaxEvents events; it reads no priority.
InitLayout ==
    /\ IsEventList(MaxEvents, MaxTime, {1})
    /\ NothingReturned

\* The column engine is handed up to MaxColumnEvents events over a short
\* range of instants, where events share starts and ends.
InitColumns ==
    /\ IsEventList(MaxColumnEvents, MaxColumnTime, {1})
    /\ NothingReturned

\* The stack engine is handed up to MaxStackEvents events.
InitStack ==
    /\ IsEventList(MaxStackEvents, MaxStackTime, 1..MaxPriority)
    /\ NothingReturned

\* The stack engine is handed up to MaxWideEvents events over the wider
\* range of instants, which has room for events that overlap without one
\* containing the other.
InitStackWide ==
    /\ IsEventList(MaxWideEvents, MaxTime, 1..MaxPriority)
    /\ NothingReturned

\* An event list with unique ids in which every event is either timed, with
\* start < end, or all-day, with start <= end (an all-day event may carry
\* the same midnight as start and end).
AllDaySpans(maxTime) == {iv \in (0..maxTime) \X (0..maxTime) : iv[1] <= iv[2]}

MixedEventOf(id, kind) ==
    [id |-> id, start |-> kind[2][1], end |-> kind[2][2],
     priority |-> 1, allDay |-> kind[1]]

IsMixedEventList(maxLen, maxTime) ==
    \E n \in 0..maxLen :
        \E f \in [1..n -> ({FALSE} \X Intervals(maxTime))
                            \cup ({TRUE} \X AllDaySpans(maxTime))] :
            events = [k \in 1..n |-> MixedEventOf(k, f[k])]

\* The column engine is handed timed and all-day events.
InitMixed ==
    /\ IsMixedEventList(MaxMixedEvents, MaxMixedTime)
    /\ NothingReturned

\* An event list with unique ids over the calendar days 0..maxDay: timed
\* events with start < end and all-day events with start <= end, at any
\* time of day.
InitEventsMap ==
    /\ IsMixedEventList(MaxMapEvents, (MaxDay + 1) * SlotsPerDay - 1)
    /\ NothingReturned

\* A date cache is created with a small maxSize; no events are involved.
InitDateCache ==
    /\ events = <<>>
    /\ NoEngineCalled
    /\ \E size \in 1..MaxCacheSize : CacheCreated(size)
    /\ CalendarCreated("week", 0)

\* A calendar is created in any view on any instant of the months
\* 0..MaxMonth; no events are involved.
InitCalendar ==
    /\ events = <<>>
    /\ NoEngineCalled
    /\ CacheCreated(DefaultMaxSize)
    /\ \E viewMode \in CalendarViews, initialDate \in NavDates :
          CalendarCreated(viewMode, initialDate)

UseEventLayoutCall ==
    /\ "useEventLayout" \notin returned
    /\ layout' = useEventLayout(events)
    /\ returned' = returned \cup {"useEventLayout"}
    /\ UNCHANGED <<events, groups, stackRuns, containmentMap, layerRuns, eventsMap, cacheVars, overlapGroups, calVars>>

FindOverlapGroupsCall ==
    /\ "findOverlapGroups" \notin returned
    /\ groups' = findOverlapGroups(events)
    /\ returned' = returned \cup {"findOverlapGroups"}
    /\ UNCHANGED <<events, layout, stackRuns, containmentMap, layerRuns, eventsMap, cacheVars, overlapGroups, calVars>>

\* The caller asks for the stacks of events under each value of the
\* maxDepth option.
CalculateStacksCall ==
    /\ stackRuns = << >>
    /\ stackRuns' = [maxDepth \in 1..MaxDepthOption |->
                         calculateStacks(events, maxDepth)]
    /\ UNCHANGED <<events, returned, layout, groups, containmentMap, layerRuns, eventsMap, cacheVars, overlapGroups, calVars>>

\* calculateContainment is exported and is also called on its own.
CalculateContainmentCall ==
    /\ "calculateContainment" \notin returned
    /\ containmentMap' = calculateContainment(events)
    /\ returned' = returned \cup {"calculateContainment"}
    /\ UNCHANGED <<events, layout, groups, stackRuns, layerRuns, eventsMap, cacheVars, overlapGroups, calVars>>

\* The caller asks for the stack layers of events under each value of the
\* maxStack option, with the default offsetPx.
CalculateStackLayersCall ==
    /\ layerRuns = << >>
    /\ layerRuns' = [maxStack \in 1..MaxStackOption |->
                         calculateStackLayers(events, maxStack, DefaultOffsetPx)]
    /\ UNCHANGED <<events, returned, layout, groups, stackRuns, containmentMap, eventsMap, cacheVars, overlapGroups, calVars>>

UseEventsMapCall ==
    /\ "useEventsMap" \notin returned
    /\ eventsMap' = useEventsMap(events)
    /\ returned' = returned \cup {"useEventsMap"}
    /\ UNCHANGED <<events, layout, groups, stackRuns, containmentMap, layerRuns, cacheVars, overlapGroups, calVars>>

\* The keys handed to get and getOrCreate, and the dates handed to
\* getForDate.
CacheKeys == (0..MaxCacheDay) \cup {InvalidKey}

CacheDates == 0..((MaxCacheDay + 1) * SlotsPerDay - 1)

Refs == CacheState(cache, accessOrder)

\* A call on the cache returns or throws with outcome.after in the refs;
\* accessed tells whether the call counts as an access of key.
CacheCalled(op, key, outcome, accessed) ==
    /\ cache' = outcome.after.cache
    /\ accessOrder' = outcome.after.accessOrder
    /\ accessLog' = IF accessed THEN Append(accessLog, key) ELSE accessLog
    /\ lastCall' = [op |-> op, key |-> key, threw |-> outcome.threw]
    /\ UNCHANGED <<maxSize, engineVars, calVars>>

\* The cache is followed until accessLog holds MaxAccesses accesses.
GetCall ==
    \E key \in CacheKeys :
        /\ Len(accessLog) < MaxAccesses
        /\ CacheCalled("get", key, cacheGet(Refs, key), key \in DOMAIN cache)

GetOrCreateCall ==
    \E key \in CacheKeys :
        /\ Len(accessLog) < MaxAccesses
        /\ LET outcome == getOrCreate(Refs, key, maxSize)
           IN  CacheCalled("getOrCreate", key, outcome, ~outcome.threw)

GetForDateCall ==
    \E date \in CacheDates :
        /\ Len(accessLog) < MaxAccesses
        /\ CacheCalled("getForDate", toDateString(date),
                       getForDate(Refs, date, maxSize), TRUE)

ClearCall ==
    /\ Len(accessLog) < MaxAccesses
    /\ CacheCalled("clear", InvalidKey, cacheClear(Refs), FALSE)

NextDateCache == GetCall \/ GetOrCreateCall \/ GetForDateCall \/ ClearCall

GroupOverlappingEventsCall ==
    /\ "groupOverlappingEvents" \notin returned
    /\ overlapGroups' = groupOverlappingEvents(events)
    /\ returned' = returned \cup {"groupOverlappingEvents"}
    /\ UNCHANGED <<events, layout, groups, stackRuns, containmentMap, layerRuns, eventsMap, cacheVars, calVars>>

NextClustering == FindOverlapGroupsCall \/ GroupOverlappingEventsCall

\* The trail keeps the latest two navigation actions since the latest jump
\* (goToToday, goToDate), the jump included.
Latest2(s) == IF Len(s) <= 2 THEN s ELSE SubSeq(s, Len(s) - 1, Len(s))

\* A navigation action hands date to setSelectedDate; moved tells whether
\* the trail records the state before the action.  The date cache and the
\* engines are not involved.
Navigated(action, date, moved) ==
    /\ selectedDate' = setSelectedDate(date).selectedDate
    /\ currentViewingDate' = setSelectedDate(date).currentViewingDate
    /\ trail' = IF moved
                THEN Latest2(Append(trail,
                         [action |-> action,
                          selectedBefore |-> selectedDate,
                          viewingBefore |-> currentViewingDate]))
                ELSE <<[action |-> action,
                        selectedBefore |-> NoDate,
                        viewingBefore |-> NoDate]>>

\* The calendar stays inside the months 0..MaxMonth.
GoToPrevious ==
    /\ view = "month" => getMonth(currentViewingDate) > 0
    /\ previousDate(view, currentViewingDate, DefaultDaysToShow) \in NavDates
    /\ Navigated("goToPrevious",
                 previousDate(view, currentViewingDate, DefaultDaysToShow), TRUE)
    /\ UNCHANGED <<view, engineVars, cacheVars>>

GoToNext ==
    /\ view = "month" => getMonth(currentViewingDate) < MaxMonth
    /\ nextDate(view, currentViewingDate, DefaultDaysToShow) \in NavDates
    /\ Navigated("goToNext",
                 nextDate(view, currentViewingDate, DefaultDaysToShow), TRUE)
    /\ UNCHANGED <<view, engineVars, cacheVars>>

\* new Date() is any instant.
GoToToday ==
    \E now \in NavDates :
        /\ Navigated("goToToday", now, FALSE)
        /\ UNCHANGED <<view, engineVars, cacheVars>>

GoToDate ==
    \E date \in NavDates :
        /\ Navigated("goToDate", date, FALSE)
        /\ UNCHANGED <<view, engineVars, cacheVars>>

NextCalendar == GoToPrevious \/ GoToNext \/ GoToToday \/ GoToDate

NextColumns == UseEventLayoutCall

NextLayout == UseEventLayoutCall \/ FindOverlapGroupsCall

NextStack == CalculateStacksCall

NextContainment == CalculateContainmentCall

NextMixed == UseEventLayoutCall

NextStackLayers == CalculateStackLayersCall

NextEventsMap == UseEventsMapCall

SpecLayout == InitLayout /\ [][NextLayout]_vars

SpecStack == InitStack /\ [][NextStack]_vars

SpecContainment == InitStack /\ [][NextContainment]_vars

SpecStackWide == InitStackWide /\ [][NextStack]_vars

SpecMixed == InitMixed /\ [][NextMixed]_vars

SpecStackLayers == InitStack /\ [][NextStackLayers]_vars

SpecEventsMap == InitEventsMap /\ [][NextEventsMap]_vars

SpecDateCache == InitDateCache /\ [][NextDateCache]_vars

SpecClustering == InitLayout /\ [][NextClustering]_vars

SpecCalendar == InitCalendar /\ [][NextCalendar]_vars

SpecColumns == InitColumns /\ [][NextColumns]_vars

\* ------------------------------------------------------------ properties
\* The relations of the data model, stated on their own: open-interval
\* overlap, closed-interval containmentMap, and the overlap cluster of an
\* event, the events of all that a chain of pairwise overlapping events of
\* all links to it.
Overlap(a, b) == a.start < b.end /\ a.end > b.start

Contains(a, b) == b.start >= a.start /\ b.end <= a.end

RECURSIVE OverlapClosure(_, _)
OverlapClosure(S, all) ==
    LET next == S \cup {e \in all : \E s \in S : Overlap(s, e)}
    IN  IF next = S THEN S ELSE OverlapClosure(next, all)

ClusterOf(e, all) == OverlapClosure({e}, all)

Positioned == Range(layout.positionedEvents)

LayoutReturned == "useEventLayout" \in returned

GroupsReturned == "findOverlapGroups" \in returned

\* The position of the group that holds event e.
GroupIndexOf(e) == CHOOSE g \in 1..Len(groups) : e \in Range(groups[g].events)

Stacked(d) == Range(stackRuns[d].stackedEvents)

\* C1: all events of one overlap cluster carry the same totalColumns, which
\* is 1 + the largest column index assigned in that cluster.
C1_TotalColumnsPerCluster ==
    LayoutReturned =>
        \A p \in Positioned :
            LET cluster == {q \in Positioned :
                               q.event \in ClusterOf(p.event, Range(events))}
            IN  /\ \A q \in cluster : q.totalColumns = p.totalColumns
                /\ p.totalColumns = 1 + SetMax({q.column : q \in cluster})

\* C2: no two events that were assigned the same column overlap in time.
C2_SameColumnDisjoint ==
    LayoutReturned =>
        \A p, q \in Positioned :
            (p.event.id # q.event.id /\ p.column = q.column)
                => ~Overlap(p.event, q.event)

\* C2 witness: a column was reused by a later event while another event
\* that overlaps both sits in a second column.
C2_Witness ==
    /\ LayoutReturned
    /\ \E p, q, r \in Positioned :
          /\ p.event.id # q.event.id /\ p.column = q.column
          /\ r.column # p.column
          /\ Overlap(r.event, p.event) /\ Overlap(r.event, q.event)

\* C3: no event returned by calculateStacks has a layer above maxDepth - 1,
\* and neither has the maxDepth summary.
C3_LayerBelowMaxDepth ==
    \A d \in DOMAIN stackRuns :
        /\ \A se \in Stacked(d) : se.layer <= d - 1
        /\ stackRuns[d].maxDepth <= d - 1

\* C4: findOverlapGroups partitions its input: every input event is in
\* exactly one group, once, and the groups hold input events only.
C4_GroupsPartitionInput ==
    GroupsReturned =>
        /\ \A e \in Range(events) :
              Cardinality({gk \in (1..Len(groups)) \X (1..Len(events)) :
                  /\ gk[2] <= Len(groups[gk[1]].events)
                  /\ groups[gk[1]].events[gk[2]] = e}) = 1
        /\ \A g \in 1..Len(groups) :
              /\ Len(groups[g].events) >= 1
              /\ Range(groups[g].events) \subseteq Range(events)
        /\ (Len(events) = 0 => groups = <<>>)
        /\ (Len(events) = 1 => Len(groups) = 1 /\ groups[1].events = events)

\* C4 witness: three or more events were split into a group of several
\* events and at least one more group.
C4_Witness ==
    /\ GroupsReturned
    /\ Len(events) >= 3
    /\ Len(groups) >= 2
    /\ \E g \in 1..Len(groups) : Len(groups[g].events) >= 2

\* C5: no event of one group overlaps an event of a different group.
C5_GroupsDoNotOverlap ==
    GroupsReturned =>
        \A g, h \in 1..Len(groups) :
            g # h => \A a \in Range(groups[g].events), b \in Range(groups[h].events) :
                         ~Overlap(a, b)

\* C5 witness: a group closed by an event nested inside an earlier, longer
\* one is followed by a group that starts where the long event ends.
C5_Witness ==
    /\ GroupsReturned
    /\ \E g \in 1..Len(groups) :
          /\ g + 1 <= Len(groups)
          /\ Len(groups[g].events) >= 2
          /\ groups[g].events[Len(groups[g].events)].end < groups[g].timeRange.end
          /\ groups[g + 1].timeRange.start = groups[g].timeRange.end

\* C6: every group is connected under the overlap relation, and events that
\* only touch, with no overlap chain between them, are in different groups.
C6_GroupsConnected ==
    GroupsReturned =>
        /\ \A g \in 1..Len(groups) :
              \A a \in Range(groups[g].events) :
                  Range(groups[g].events) \subseteq
                      OverlapClosure({a}, Range(groups[g].events))
        /\ \A a, b \in Range(events) :
              (a.end = b.start /\ b \notin ClusterOf(a, Range(events)))
                  => GroupIndexOf(a) # GroupIndexOf(b)

\* C6 witness: a chain A-B, B-C whose ends A and C do not overlap is one
\* group, and an event that only touches the chain is in another.
C6_Witness ==
    /\ GroupsReturned
    /\ \E g \in 1..Len(groups) :
          /\ \E a, c \in Range(groups[g].events) :
                a.id # c.id /\ ~Overlap(a, c)
          /\ \E a \in Range(groups[g].events), b \in Range(events) :
                a.end = b.start /\ GroupIndexOf(b) # g

\* C7: hasOverlaps is true iff some overlap cluster has more than one
\* event, that is iff some pair of events overlaps.
C7_HasOverlapsIffCluster ==
    LayoutReturned =>
        /\ layout.hasOverlaps <=>
              \E e \in Range(events) : Cardinality(ClusterOf(e, Range(events))) > 1
        /\ layout.hasOverlaps <=>
              \E a, b \in Range(events) : a.id # b.id /\ Overlap(a, b)

\* C7 witness: hasOverlaps was reported for a list that holds both a pair
\* of overlapping events and a pair of events that only touch.
C7_Witness ==
    /\ LayoutReturned
    /\ layout.hasOverlaps
    /\ \E a, b \in Range(events) : a.id # b.id /\ Overlap(a, b)
    /\ \E a, b \in Range(events) : a.end = b.start

\* C7 witness for the negative case: events that only touch, no overlaps.
C7_WitnessTouching ==
    /\ LayoutReturned
    /\ ~layout.hasOverlaps
    /\ \E a, b \in Range(events) : a.end = b.start

\* C8: in every result of calculateStacks, layer = 0 iff parentId = null.
C8_RootIffNoParent ==
    \A d \in DOMAIN stackRuns :
        \A se \in Stacked(d) : (se.layer = 0) <=> (se.parentId = NoParent)

\* C8 witness: an event with a parent whose layer was clamped (a run with
\* a larger maxDepth reports it deeper) next to a root.
C8_Witness ==
    \E d, e \in DOMAIN stackRuns :
        /\ d < e
        /\ \E se \in Stacked(d), te \in Stacked(e) :
              /\ se.event = te.event
              /\ se.layer < te.layer
              /\ se.parentId # NoParent
        /\ \E se \in Stacked(d) : se.layer = 0

\* C9: a reported parent is in the same overlap cluster, contains the child
\* (closed intervals) and has a priority number no larger than the child's.
C9_ParentContainsChild ==
    \A d \in DOMAIN stackRuns :
        \A b \in Stacked(d) :
            b.parentId # NoParent =>
                \E a \in Range(events) :
                    /\ a.id = b.parentId
                    /\ a \in ClusterOf(b.event, Range(events))
                    /\ Contains(a, b.event)
                    /\ a.priority <= b.event.priority

\* C9 witness: an event has a parent although an event of the cluster with
\* a smaller priority number does not contain it.
C9_Witness ==
    \E d \in DOMAIN stackRuns :
        \E b \in Stacked(d) :
            /\ b.parentId # NoParent
            /\ \E c \in ClusterOf(b.event, Range(events)) :
                  /\ c.priority < b.event.priority
                  /\ ~Contains(c, b.event)

\* C10: the parentId and childIds reported for an event are the same for
\* every maxDepth; two runs differ only in the layer and insets of events
\* that lie at or below the smaller maxDepth.
C10_LinksIndependentOfMaxDepth ==
    \A d, e \in DOMAIN stackRuns :
        /\ Len(stackRuns[d].stackedEvents) = Len(stackRuns[e].stackedEvents)
        /\ \A k \in 1..Len(stackRuns[d].stackedEvents) :
              LET se == stackRuns[d].stackedEvents[k]
                  te == stackRuns[e].stackedEvents[k]
              IN  /\ se.event = te.event
                  /\ se.parentId = te.parentId
                  /\ se.childIds = te.childIds
                  /\ (se.layer = te.layer => se = te)
                  /\ (se.layer < te.layer => d < e /\ te.layer >= d)
        /\ stackRuns[d].stackGroups = stackRuns[e].stackGroups

\* C10 witness: two runs with different maxDepth report different layers
\* for an event of a three-level tree.
C10_Witness ==
    \E d, e \in DOMAIN stackRuns :
        \E se \in Stacked(d), te \in Stacked(e) :
            /\ se.event = te.event
            /\ se.layer # te.layer
            /\ se.parentId # NoParent
            /\ Cardinality(Stacked(d)) >= 3


\* C11: the childIds of an event are exactly the ids of the events whose
\* parentId is that event's id, each listed once; an event that is alone in
\* its cluster has no parent and no children.
C11_ChildIdsMirrorParentId ==
    \A d \in DOMAIN stackRuns :
        \A se \in Stacked(d) :
            LET children == {te.event.id : te \in {x \in Stacked(d) :
                                 x.parentId = se.event.id}}
            IN  /\ Range(se.childIds) = children
                /\ Len(se.childIds) = Cardinality(children)
                /\ ClusterOf(se.event, Range(events)) = {se.event}
                       => se.parentId = NoParent /\ se.childIds = <<>>

\* C11 witness: one event lists two children, both of which name it as
\* their parent.
C11_Witness ==
    \E d \in DOMAIN stackRuns :
        \E se \in Stacked(d) :
            /\ Len(se.childIds) >= 2
            /\ \A te \in Stacked(d) :
                  te.event.id # se.event.id => te.parentId = se.event.id


ContainmentReturned == "calculateContainment" \in returned

\* The number of parentId links from id up to a root of the map info, or -1
\* when no root is reached within fuel links.
RECURSIVE AncestorCount(_, _, _)
AncestorCount(info, id, fuel) ==
    IF info[id].parentId = NoParent THEN 0
    ELSE IF fuel = 0 THEN -1
    ELSE LET above == AncestorCount(info, info[id].parentId, fuel - 1)
         IN  IF above = -1 THEN -1 ELSE above + 1

\* C12: in the tree built by calculateContainment the layer of an event is
\* the number of its ancestors, 0 for a root and the parent's layer + 1
\* otherwise, and the parent links have no cycle.
C12_LayerIsAncestorCount ==
    ContainmentReturned =>
        \A id \in DOMAIN containmentMap :
            /\ AncestorCount(containmentMap, id, Len(events)) # -1
            /\ containmentMap[id].layer = AncestorCount(containmentMap, id, Len(events))
            /\ containmentMap[id].parentId # NoParent =>
                  /\ containmentMap[id].parentId \in DOMAIN containmentMap
                  /\ containmentMap[id].layer =
                        containmentMap[containmentMap[id].parentId].layer + 1

\* C12 witness: an event with a parent and a grandparent is on layer 2.
C12_Witness ==
    /\ ContainmentReturned
    /\ \E id \in DOMAIN containmentMap :
          /\ containmentMap[id].layer = 2
          /\ containmentMap[id].parentId # NoParent
          /\ containmentMap[containmentMap[id].parentId].parentId # NoParent


\* The position of event e in the caller's list.
InputIndex(e) == CHOOSE k \in 1..Len(events) : events[k] = e

\* The order in which calculateStacks places the events of a cluster:
\* priority ascending, then the cluster's order, which is start ascending,
\* then the order of the caller's list.
PlacedBefore(a, b) ==
    \/ a.priority < b.priority
    \/ /\ a.priority = b.priority
       /\ \/ a.start < b.start
          \/ (a.start = b.start /\ InputIndex(a) < InputIndex(b))

\* C13: an event is a root (layer 0, no parent) iff no event of its cluster
\* placed before it contains it; when no event contains another one, all
\* events are roots and hasStacks is false, overlaps or not.
C13_RootIffNoEarlierContainer ==
    \A d \in DOMAIN stackRuns :
        /\ \A se \in Stacked(d) :
              (se.layer = 0 /\ se.parentId = NoParent) <=>
                  ~\E a \in ClusterOf(se.event, Range(events)) :
                       /\ a.id # se.event.id
                       /\ PlacedBefore(a, se.event)
                       /\ Contains(a, se.event)
        /\ (\A a, b \in Range(events) : a.id # b.id => ~Contains(a, b)) =>
              /\ ~stackRuns[d].hasStacks
              /\ \A se \in Stacked(d) : se.layer = 0 /\ se.parentId = NoParent

\* C13 witness: two events overlap, neither contains the other, both are
\* roots and hasStacks is false.
C13_Witness ==
    \E d \in DOMAIN stackRuns :
        /\ ~stackRuns[d].hasStacks
        /\ \E se, te \in Stacked(d) :
              /\ se.event.id # te.event.id
              /\ Overlap(se.event, te.event)
              /\ ~Contains(se.event, te.event) /\ ~Contains(te.event, se.event)
              /\ se.layer = 0 /\ te.layer = 0
              /\ se.parentId = NoParent /\ te.parentId = NoParent


\* C14: when several events placed before an event contain it, its parent
\* is the one placed last among them.
C14_ParentIsNearestContainer ==
    \A d \in DOMAIN stackRuns :
        \A b \in Stacked(d) :
            b.parentId # NoParent =>
                \E a \in Range(events) :
                    /\ a.id = b.parentId
                    /\ PlacedBefore(a, b.event)
                    /\ Contains(a, b.event)
                    /\ ~\E c \in ClusterOf(b.event, Range(events)) :
                          /\ c.id # a.id /\ c.id # b.event.id
                          /\ PlacedBefore(a, c) /\ PlacedBefore(c, b.event)
                          /\ Contains(c, b.event)

\* C14 witness: an event has two containers placed before it; its parent
\* is the later one, although the earlier one is longer.
C14_Witness ==
    \E d \in DOMAIN stackRuns :
        \E b \in Stacked(d) :
            \E a, c \in Range(events) :
                /\ a.id = b.parentId
                /\ c.id # a.id /\ c.id # b.event.id
                /\ PlacedBefore(c, a)
                /\ Contains(c, b.event)
                /\ c.end - c.start > a.end - a.start


\* C15: hasStacks is true iff some returned event has a layer above 0, and
\* the maxDepth summary is the largest reported layer, 0 when there is no
\* event or all events are roots.
C15_SummaryMatchesRecords ==
    \A d \in DOMAIN stackRuns :
        LET layers == {se.layer : se \in Stacked(d)}
        IN  /\ stackRuns[d].hasStacks <=> \E l \in layers : l > 0
            /\ stackRuns[d].maxDepth = SetMax(layers \cup {0})

\* C15 witness: the summary of a run that clamped is smaller than the
\* summary of a run that did not, and both report stacks.
C15_Witness ==
    \E d, e \in DOMAIN stackRuns :
        /\ stackRuns[d].hasStacks /\ stackRuns[e].hasStacks
        /\ stackRuns[d].maxDepth < stackRuns[e].maxDepth
        /\ \E se \in Stacked(d) : se.layer = 0


\* C16: every placed event has column >= 0, totalColumns >= 1 and
\* column < totalColumns.
C16_ColumnInsideTotal ==
    LayoutReturned =>
        \A p \in Positioned :
            /\ p.column >= 0
            /\ p.totalColumns >= 1
            /\ p.column < p.totalColumns

\* C16 witness: an event sits in the last of its own totalColumns slots
\* while another event of its cluster reports more columns.
C16_Witness ==
    /\ LayoutReturned
    /\ \E p, q \in Positioned :
          /\ p.column >= 1
          /\ p.column = p.totalColumns - 1
          /\ q.event \in ClusterOf(p.event, Range(events))
          /\ q.totalColumns > p.totalColumns


\* The largest number of events of the set S in progress at one instant.
MaxInProgress(S) ==
    SetMax({Cardinality({e \in S : e.start <= t /\ t < e.end}) :
               t \in {e.start : e \in S}})

\* C17: in each overlap cluster the number of columns in use, 1 + the
\* largest assigned column, is the largest number of events of the cluster
\* in progress at one instant.
C17_MinimalWidth ==
    LayoutReturned =>
        \A p \in Positioned :
            LET cluster == ClusterOf(p.event, Range(events))
                columns == {q.column : q \in {x \in Positioned : x.event \in cluster}}
            IN  1 + SetMax(columns) = MaxInProgress(cluster)

\* C17 witness: a cluster of four events fits in two columns, both of
\* which are used twice.
C17_Witness ==
    /\ LayoutReturned
    /\ \E p \in Positioned :
          LET cluster == ClusterOf(p.event, Range(events))
          IN  /\ Cardinality(cluster) = 4
              /\ MaxInProgress(cluster) = 2
              /\ \A q \in Positioned : q.column <= 1


\* The events of the caller's list whose allDay flag is not set, in order.
TimedEvents == SelectSeq(events, LAMBDA e : ~e.allDay)

\* C19: useEventLayout returns one record for each event whose allDay flag
\* is not set, in input order, and none for all-day events; the columns are
\* those the timed events get when the all-day events are left out of the
\* list.
C19_AllDayEventsLeftOut ==
    LayoutReturned =>
        /\ Len(layout.positionedEvents) = Len(TimedEvents)
        /\ \A k \in 1..Len(TimedEvents) :
              layout.positionedEvents[k].event = TimedEvents[k]
        /\ \A p \in Positioned : ~p.event.allDay
        /\ layout = useEventLayout(TimedEvents)

\* C19 witness: an all-day event stands between two timed events in the
\* list and spans both; the timed events do not overlap and share column 0.
C19_Witness ==
    /\ LayoutReturned
    /\ Len(events) = 3 /\ Len(layout.positionedEvents) = 2
    /\ events[2].allDay
    /\ Overlap(events[2], events[1]) /\ Overlap(events[2], events[3])
    /\ \A p \in Positioned : p.column = 0 /\ p.totalColumns = 1


LayersReturned == layerRuns # << >>

\* The order of the earlier stacking API: priority ascending, then earlier
\* start, then the order of the caller's list.
RankedBefore(a, b) ==
    \/ a.priority < b.priority
    \/ /\ a.priority = b.priority
       /\ \/ a.start < b.start
          \/ (a.start = b.start /\ InputIndex(a) < InputIndex(b))

\* The number of events of the caller's list that come before e.
RankOf(e) == Cardinality({o \in Range(events) : RankedBefore(o, e)})

\* C20: calculateStackLayers returns one record per event; the event at
\* rank i in (priority ascending, then earlier start) order has stackLayer
\* min(i, maxStack - 1) and stackOffset stackLayer * offsetPx, so the event
\* at rank 0 is at layer 0 and no layer exceeds maxStack - 1.
C20_LayerIsClampedRank ==
    LayersReturned =>
        \A maxStack \in DOMAIN layerRuns :
            LET stacked == layerRuns[maxStack]
            IN  /\ {s.event : s \in Range(stacked)} = Range(events)
                /\ Len(stacked) = Len(events)
                /\ \A s \in Range(stacked) :
                      /\ s.stackLayer = Min2(RankOf(s.event), maxStack - 1)
                      /\ s.stackOffset = s.stackLayer * DefaultOffsetPx
                      /\ s.stackLayer <= maxStack - 1
                      /\ RankOf(s.event) = 0 => s.stackLayer = 0

\* C20 witness: with maxStack = 2 the last of three events, which came
\* first in the caller's list, is clamped from rank 2 to layer 1 and sits
\* at offset 8 next to the event of rank 1.
C20_Witness ==
    /\ LayersReturned
    /\ Len(events) = 3
    /\ \E s, t \in Range(layerRuns[2]) :
          /\ s.event = events[1]
          /\ RankOf(s.event) = 2 /\ RankOf(t.event) = 1
          /\ s.stackLayer = 1 /\ t.stackLayer = 1
          /\ s.stackOffset = DefaultOffsetPx


EventsMapReturned == "useEventsMap" \in returned

\* The calendar day an instant falls on.
DayOf(t) == t \div SlotsPerDay

\* C21: every all-day event and every event whose start and end fall on
\* different calendar days is filed under each calendar day from its start
\* day to its end day inclusive.
C21_FiledUnderEverySpannedDay ==
    EventsMapReturned =>
        \A e \in Range(events) :
            (e.allDay \/ DayOf(e.start) # DayOf(e.end)) =>
                \A day \in DayOf(e.start)..DayOf(e.end) :
                    /\ day \in DOMAIN eventsMap
                    /\ e \in Range(eventsMap[day])


\* The position in the access history of the latest access of key.
LastAccess(key) ==
    SetMax({i \in 1..Len(accessLog) : accessLog[i] = key})

\* The cached key whose latest access is the oldest.
LeastRecentlyAccessed ==
    CHOOSE key \in DOMAIN cache :
        \A other \in DOMAIN cache : LastAccess(key) <= LastAccess(other)

\* C22: size() never exceeds maxSize, and a call that inserts a new key
\* into a full cache removes the least recently accessed key and no other.
C22_BoundedLru ==
    /\ [](cacheSize(Refs) <= maxSize)
    /\ [][(/\ Cardinality(DOMAIN cache) = maxSize
            /\ DOMAIN cache' \ DOMAIN cache # {})
           => DOMAIN cache \ DOMAIN cache' = {LeastRecentlyAccessed}]_vars

\* C22 witness: a cache of two entries has seen a, b, a, c: the insertion
\* of c removed b, the older insertion a stays because it was read again.
C22_Witness ==
    /\ maxSize = 2
    /\ Len(accessLog) = 4
    /\ accessLog[1] = accessLog[3]
    /\ Cardinality(Range(accessLog)) = 3
    /\ DOMAIN cache = {accessLog[1], accessLog[4]}
    /\ accessOrder = <<accessLog[1], accessLog[4]>>


\* C29: a getOrCreate call with a key that does not parse throws and leaves
\* the cached keys, size() and the access order as they were.
C29_FailedCreateLeavesCache ==
    [][(lastCall'.op = "getOrCreate" /\ lastCall'.key = InvalidKey)
       => /\ lastCall'.threw
          /\ DOMAIN cache' = DOMAIN cache
          /\ Cardinality(DOMAIN cache') = Cardinality(DOMAIN cache)
          /\ accessOrder' = accessOrder]_vars


\* The order in which the column engine places events: start ascending,
\* then longer duration first, then the order of the caller's list.
ProcessedBefore(a, b) ==
    \/ a.start < b.start
    \/ /\ a.start = b.start
       /\ \/ a.end - a.start > b.end - b.start
          \/ (a.end - a.start = b.end - b.start /\ InputIndex(a) < InputIndex(b))

\* The records of the events placed before p.
PlacedEarlier(p) == {q \in Positioned : ProcessedBefore(q.event, p.event)}

\* C23: first fit.  The column of an event was free when the event was
\* placed (every earlier event in it had ended by the event's start), every
\* column of lower index was still in use by an earlier event, and the
\* columns in use form the range 0..k-1.
C23_FirstFit ==
    LayoutReturned =>
        /\ \A p \in Positioned :
              /\ \A q \in PlacedEarlier(p) :
                    q.column = p.column => q.event.end <= p.event.start
              /\ \A col \in 0..(p.column - 1) :
                    \E q \in PlacedEarlier(p) :
                        q.column = col /\ q.event.end > p.event.start
        /\ {p.column : p \in Positioned} = 0..(Cardinality({p.column : p \in Positioned}) - 1)

\* C23 witness: two columns are free when an event is placed, and it takes
\* column 0; another event opened column 1 because column 0 was in use.
C23_Witness ==
    /\ LayoutReturned
    /\ \E p \in Positioned :
          /\ p.column = 0
          /\ \E q0, q1 \in PlacedEarlier(p) :
                /\ q0.column = 0 /\ q1.column = 1
                /\ q0.event.end <= p.event.start
                /\ q1.event.end <= p.event.start

\* The caller's events of one cluster, in the caller's order.
ClusterList(e) ==
    LET cluster == ClusterOf(e, Range(events))
    IN  SelectSeq(events, LAMBDA x : x \in cluster)

\* C24: the single pass over all events gives every event the column that
\* a placement of its cluster alone gives it; the first event of a cluster
\* gets column 0, and an event that overlaps nothing gets column 0 and
\* totalColumns 1.
C24_SinglePassIsPerCluster ==
    LayoutReturned =>
        \A p \in Positioned :
            LET cluster == ClusterOf(p.event, Range(events))
            IN  /\ p.column = assignColumns(ClusterList(p.event))[p.event.id].column
                /\ (\A e \in cluster : ~ProcessedBefore(e, p.event)) => p.column = 0
                /\ cluster = {p.event} => p.column = 0 /\ p.totalColumns = 1

\* C24 witness: a cluster of two events in columns 0 and 1 is followed by
\* a second cluster of two events that starts when the first ends and uses
\* columns 0 and 1 again.
C24_Witness ==
    /\ LayoutReturned
    /\ \E p1, p2, p3, p4 \in Positioned :
          /\ Overlap(p1.event, p2.event) /\ Overlap(p3.event, p4.event)
          /\ p1.column = 0 /\ p2.column = 1
          /\ p3.column = 0 /\ p4.column = 1
          /\ p3.event.start >= p1.event.end /\ p3.event.start >= p2.event.end
          /\ p4.event.start >= p1.event.end /\ p4.event.start >= p2.event.end

\* C25: if A and B have the same priority, A starts before B and A
\* contains B, then B is not a root, in the result of calculateStacks and
\* in the result of calculateContainment called directly.
C25_EarlierContainerIsPlacedFirst ==
    \A a, b \in Range(events) :
        (a.priority = b.priority /\ a.start < b.start /\ Contains(a, b)) =>
            /\ ContainmentReturned => containmentMap[b.id].parentId # NoParent
            /\ stackRuns # << >> =>
                  \A d \in DOMAIN stackRuns :
                      \A s \in Stacked(d) :
                          s.event = b => s.parentId # NoParent

\* C26: of two events with the same start and different durations, the
\* longer one is in the strictly lower column.
C26_LongerFirstAtSameStart ==
    LayoutReturned =>
        \A p, q \in Positioned :
            (p.event.start = q.event.start /\ p.event.end > q.event.end) =>
                p.column < q.column

\* C26 witness: the shorter of two events with the same start comes first
\* in the caller's list and is in column 1, the longer one in column 0.
C26_Witness ==
    /\ LayoutReturned
    /\ \E p, q \in Positioned :
          /\ p.event.start = q.event.start /\ p.event.end > q.event.end
          /\ InputIndex(q.event) < InputIndex(p.event)
          /\ p.column = 0 /\ q.column = 1


\* C27: for every group returned by findOverlapGroups, timeRange.start is
\* the earliest start and timeRange.end the latest end among the group's
\* events.
C27_TimeRangeSpansGroup ==
    GroupsReturned =>
        \A g \in 1..Len(groups) :
            LET members == Range(groups[g].events)
            IN  /\ \A e \in members : groups[g].timeRange.start <= e.start
                /\ \E e \in members : groups[g].timeRange.start = e.start
                /\ \A e \in members : e.end <= groups[g].timeRange.end
                /\ \E e \in members : groups[g].timeRange.end = e.end

\* C27 witness: the last event to join a group is nested inside an earlier,
\* longer one, and the range still ends with the longer event.
C27_Witness ==
    /\ GroupsReturned
    /\ \E g \in 1..Len(groups) :
          LET evs == groups[g].events
          IN  /\ Len(evs) >= 2
              /\ evs[Len(evs)].end < evs[1].end
              /\ evs[Len(evs)].start > evs[1].start
              /\ groups[g].timeRange.end = evs[1].end

OverlapGroupsReturned == "groupOverlappingEvents" \in returned

\* C28: findOverlapGroups and groupOverlappingEvents return the same
\* partition of the events into groups.
C28_ClusteringsAgree ==
    (GroupsReturned /\ OverlapGroupsReturned) =>
        {Range(groups[g].events) : g \in 1..Len(groups)}
            = {Range(overlapGroups[g]) : g \in 1..Len(overlapGroups)}

\* C28 witness: both return a group that is a chain A-B, B-C whose ends A
\* and C do not overlap, and a second group.
C28_Witness ==
    /\ GroupsReturned /\ OverlapGroupsReturned
    /\ Len(groups) = 2 /\ Len(overlapGroups) = 2
    /\ \E g \in 1..Len(overlapGroups) :
          \E a, c \in Range(overlapGroups[g]) : a.id # c.id /\ ~Overlap(a, c)


\* The latest two navigation actions were first and then second.
JustDid(first, second) ==
    /\ Len(trail) = 2
    /\ trail[1].action = first /\ trail[2].action = second

\* C30: goToNext followed by goToPrevious, and goToPrevious followed by
\* goToNext, restore selectedDate and currentViewingDate; selectedDate is
\* always currentViewingDate at midnight.
C30_NextPreviousRoundTrip ==
    /\ (JustDid("goToNext", "goToPrevious") \/ JustDid("goToPrevious", "goToNext"))
           => /\ selectedDate = trail[1].selectedBefore
              /\ currentViewingDate = trail[1].viewingBefore
    /\ selectedDate = currentViewingDate
    /\ selectedDate % SlotsPerDay = 0

====
